---- MODULE Spec2Model ----
(***************************************************************************)
(* brushbloom: an HTTP image asset service (axum handlers over a file      *)
(* store).  The module models                                              *)
(*   - the store: the blob directory (conf.file_path) and the metadata     *)
(*     directory (conf.meta_path);                                         *)
(*   - the six request handlers of src/handlers/image.rs, each request     *)
(*     being a process that advances one filesystem operation at a time,   *)
(*     so that requests interleave as they do under the tokio runtime;     *)
(*   - the pure helpers of src/handlers/mod.rs (resize_image and its f32   *)
(*     arithmetic, add_watermark_to_image and its u32 arithmetic), which   *)
(*     a second specification applies to every parameter combination       *)
(*     their signatures admit.                                             *)
(***************************************************************************)
EXTENDS Integers, Sequences, FiniteSets, TLC

VARIABLES
    files,      \* blob directory: path <<id, extension>> -> bytes
    metas,      \* metadata directory: id -> serialized sidecar
    uuids,      \* number of Uuid::new_v4() values drawn for assets so far
    reqs,       \* the requests in flight, one per connection slot
    last,       \* the request that finished last, with its response
    returned,   \* history: what the clients were told (id, origin, bytes)
    obtained,   \* history: id -> number of write operations that drew it
    faults,     \* number of I/O and codec failures injected so far
    eng         \* the transformation-engine call of SpecEngine

vars == <<files, metas, uuids, reqs, last, returned, obtained, faults, eng>>

---------------------------------------------------------------------------
(* Bounds *)

MaxIds == 3          \* asset ids the model may draw
MaxSlots == 2        \* requests in flight at the same time
MaxLen == 1          \* longest uploaded payload, in bytes
MaxByte == 0         \* byte values are 0..MaxByte
MaxSrcW == 6         \* widest decoded source image of SpecEngine
MaxSrcH == 27        \* tallest decoded source image of SpecEngine
MaxTarget == 7       \* largest requested target dimension of SpecEngine
MaxFaults == 1       \* I/O and codec failures the environment may inject

Ids == 1..MaxIds
Slots == 1..MaxSlots
Byte == 0..MaxByte
Payloads == UNION {[1..n -> Byte] : n \in 0..MaxLen}

---------------------------------------------------------------------------
(* Option<T> *)

\* Option<u32> and Option<String>; None carries a value of the option's type
None == [some |-> FALSE, val |-> 0]
NoneStr == [some |-> FALSE, val |-> ""]
Some(x) == [some |-> TRUE, val |-> x]
Option(S) == {None} \cup {Some(x) : x \in S}
OptionStr(S) == {NoneStr} \cup {Some(x) : x \in S}

---------------------------------------------------------------------------
(* ImageFormat and the format detector *)

ImageFormat == {"Jpeg", "Png", "Gif", "WebP", "Unknown"}

as_str(image_format) ==
    CASE image_format = "Jpeg" -> ".jpeg"
      [] image_format = "Png" -> ".png"
      [] image_format = "Gif" -> ".gif"
      [] image_format = "WebP" -> ".webp"
      [] OTHER -> ""

Extensions == {as_str(f) : f \in ImageFormat}

\* The content-type strings of the model: the four known types, an
\* upper-case and a mixed-case spelling, the default of get_image and a type
\* that is not an image.
ContentTypes ==
    {"image/jpeg", "image/png", "image/gif", "image/webp",
     "IMAGE/PNG", "Image/Jpeg", "application/octet-stream", "text/plain"}

\* the content types of the uploaded file parts
UploadTypes == {"IMAGE/PNG", "text/plain"}

\* a header value that HeaderValue::to_str rejects (not visible ASCII)
OpaqueHeader == "image/png<0xFF>"

\* the Content-Type headers of the retrieve requests
GetHeaders == {"Image/Jpeg", "image/png", "text/plain", OpaqueHeader}

\* str::to_lowercase on the strings of ContentTypes
to_lowercase(s) ==
    CASE s = "IMAGE/PNG" -> "image/png"
      [] s = "Image/Jpeg" -> "image/jpeg"
      [] OTHER -> s

detect_image_format(content_type) ==
    LET lc == to_lowercase(content_type) IN
    CASE lc = "image/jpeg" -> "Jpeg"
      [] lc = "image/png" -> "Png"
      [] lc = "image/gif" -> "Gif"
      [] lc = "image/webp" -> "WebP"
      [] OTHER -> "Unknown"

---------------------------------------------------------------------------
(* f32 arithmetic of resize_image.  A positive f32 is [m, e] with          *)
(* 2^23 <= m < 2^24 and value m * 2^e; zero is [m |-> 0, e |-> 0].         *)
(* Operands are u32 values below 2^11, which `as f32` converts exactly.    *)

P23 == 8388608
P24 == 16777216
P12 == 4096

F32Zero == [m |-> 0, e |-> 0]

RECURSIVE BitLen(_)
BitLen(n) == IF n = 0 THEN 0 ELSE 1 + BitLen(n \div 2)

\* round-to-nearest, ties-to-even of the mantissa m with remainder rem out of
\* den, at exponent e; renormalizes when the mantissa carries into bit 24
F32RoundEven(m, rem, den, e) ==
    LET up == (2 * rem > den) \/ (2 * rem = den /\ m % 2 = 1)
        m1 == IF up THEN m + 1 ELSE m
    IN  IF m1 = P24 THEN [m |-> P23, e |-> e + 1] ELSE [m |-> m1, e |-> e]

\* quotient bits of r / d below the leading one, by long division
RECURSIVE F32DivBits(_, _, _, _)
F32DivBits(q, r, d, n) ==
    IF n = 0 THEN <<q, r>>
    ELSE IF 2 * r >= d THEN F32DivBits(2 * q + 1, 2 * r - d, d, n - 1)
         ELSE F32DivBits(2 * q, 2 * r, d, n - 1)

\* (a as f32) / (b as f32), b > 0
F32Div(a, b) ==
    IF a = 0 THEN F32Zero
    ELSE
      LET la == BitLen(a)
          lb == BitLen(b)
          a0 == IF la < lb THEN a * 2^(lb - la) ELSE a
          b0 == IF lb < la THEN b * 2^(la - lb) ELSE b
          \* a0 and b0 have the same bit length; make b0 <= a0 < 2 * b0
          lt == a0 < b0
          a1 == IF lt THEN 2 * a0 ELSE a0
          sh == (lb - la) + (IF lt THEN 1 ELSE 0)   \* a1/b0 = (a/b) * 2^sh
          qr == F32DivBits(1, a1 - b0, b0, 23)
      IN  F32RoundEven(qr[1], qr[2], b0, 0 - 23 - sh)

\* (n as f32) * f, n > 0
F32Mul(n, f) ==
    IF f.m = 0 THEN F32Zero
    ELSE
      LET mh == f.m \div P12
          ml == f.m % P12
          hi == n * mh + (n * ml) \div P12
          lo == (n * ml) % P12
          \* the exact product is hi * 2^12 + lo; s bits are rounded away
          s == BitLen(hi) - 12
          m == hi * 2^(12 - s) + lo \div 2^s
          rem == lo % 2^s
      IN  F32RoundEven(m, rem, 2^s, f.e + s)

\* f32::min on non-negative values
F32Min(a, b) ==
    IF a.m = 0 THEN a
    ELSE IF b.m = 0 THEN b
    ELSE IF a.e < b.e \/ (a.e = b.e /\ a.m <= b.m) THEN a ELSE b

\* f32::round (half away from zero) followed by `as u32`
F32RoundToU32(f) ==
    IF f.m = 0 THEN 0
    ELSE IF f.e >= 0 THEN f.m * 2^f.e
    ELSE LET k == 0 - f.e IN
         IF k >= 25 THEN 0
         ELSE (f.m \div 2^k) + (IF f.m % 2^k >= 2^(k - 1) THEN 1 ELSE 0)

---------------------------------------------------------------------------
(* Transformation engine: resize_image *)

\* PhotonImage, as far as the handlers look at it
Image(w, h) == [width |-> w, height |-> h]

Ok(img) == [ok |-> TRUE, img |-> img]
Err == [ok |-> FALSE, img |-> Image(0, 0)]

\* photon_rs::transform::resize returns an image of the requested size
resize(image, new_width, new_height) == Image(new_width, new_height)

\* resize_image falling back to the source size when no dimension is given
resize_imageKeepSize(image, width, height, maintain_aspect) ==
    LET orig_width == image.width
        orig_height == image.height
    IN  CASE width.some /\ height.some /\ ~maintain_aspect ->
               Ok(resize(image, width.val, height.val))
          [] width.some /\ ~height.some ->
               LET ratio == F32Div(width.val, orig_width) IN
               Ok(resize(image, width.val,
                         F32RoundToU32(F32Mul(orig_height, ratio))))
          [] ~width.some /\ height.some ->
               LET ratio == F32Div(height.val, orig_height) IN
               Ok(resize(image, F32RoundToU32(F32Mul(orig_width, ratio)),
                         height.val))
          [] width.some /\ height.some /\ maintain_aspect ->
               LET width_ratio == F32Div(width.val, orig_width)
                   height_ratio == F32Div(height.val, orig_height)
                   ratio == F32Min(width_ratio, height_ratio)
               IN  Ok(resize(image, F32RoundToU32(F32Mul(orig_width, ratio)),
                             F32RoundToU32(F32Mul(orig_height, ratio))))
          [] OTHER -> Ok(image)

resize_image(image, width, height, maintain_aspect) ==
    LET orig_width == image.width
        orig_height == image.height
    IN  CASE width.some /\ height.some /\ ~maintain_aspect ->
               Ok(resize(image, width.val, height.val))
          [] width.some /\ ~height.some ->
               LET ratio == F32Div(width.val, orig_width) IN
               Ok(resize(image, width.val,
                         F32RoundToU32(F32Mul(orig_height, ratio))))
          [] ~width.some /\ height.some ->
               LET ratio == F32Div(height.val, orig_height) IN
               Ok(resize(image, F32RoundToU32(F32Mul(orig_width, ratio)),
                         height.val))
          [] width.some /\ height.some /\ maintain_aspect ->
               LET width_ratio == F32Div(width.val, orig_width)
                   height_ratio == F32Div(height.val, orig_height)
                   ratio == F32Min(width_ratio, height_ratio)
               IN  Ok(resize(image, F32RoundToU32(F32Mul(orig_width, ratio)),
                             F32RoundToU32(F32Mul(orig_height, ratio))))
          [] OTHER -> Err

---------------------------------------------------------------------------
(* Asset store: paths, sidecars, identifiers *)

\* Uuid::new_v4() after n earlier draws.  A version-4 UUID carries 122 random
\* bits; the model takes every draw to be fresh.
NewUuidRepeat(n) == IF n = 0 THEN 1 ELSE n
NewUuid(n) == n + 1

\* File::create + write_all, or save_image: the file at path is created or
\* truncated and receives content; every other file is left alone
FsWrite(dir, path, content) ==
    [q \in DOMAIN dir \cup {path} |-> IF q = path THEN content ELSE dir[q]]

\* format!("{}/{}{}", fp, file_id, image_format.as_str()) of write_file
blob_pathNoId(file_id, image_format) == <<0, as_str(image_format)>>
blob_path(file_id, image_format) == <<file_id, as_str(image_format)>>

\* format!("{}/{}{}", file_path, img_id, img_fmt.as_str()) of get_image
get_pathNoExt(img_id, img_fmt) == <<img_id, "">>
get_path(img_id, img_fmt) == <<img_id, as_str(img_fmt)>>

\* format!("{}/{}{}", file_path, img_id, img_meta.fmt) of read_image
read_path(img_id, img_meta) == <<img_id, img_meta.fmt>>

\* format!("{}/{}{}", file_path, new_image_id, img_meta.fmt) of resize_img
resize_output_pathInPlace(img_id, new_image_id, img_meta) ==
    <<img_id, img_meta.fmt>>
resize_output_path(img_id, new_image_id, img_meta) ==
    <<new_image_id, img_meta.fmt>>

\* format!("{}/{}{}", file_path, new_image_id, img_meta.fmt) of save_new_iamge
output_path(new_image_id, img_meta) == <<new_image_id, img_meta.fmt>>

\* ImgMetadata { fmt, size_in_bytes } built by write_file
ImgMetadataRawLen(image_format, file_data) ==
    [fmt |-> as_str(image_format), size_in_bytes |-> Len(file_data) + 1]
ImgMetadata(image_format, file_data) ==
    [fmt |-> as_str(image_format), size_in_bytes |-> Len(file_data)]

\* serde_json::to_vec(&meta): the JSON object, one member per element
to_vec(meta) == <<<<"fmt", meta.fmt>>, <<"size_in_bytes", meta.size_in_bytes>>>>

\* serde_json::from_slice::<ImgMetadata>: Ok(meta) or Err on text that is not
\* a complete object with both fields
from_slice(json) ==
    IF Len(json) = 2 /\ json[1][1] = "fmt" /\ json[2][1] = "size_in_bytes"
    THEN [ok |-> TRUE, fmt |-> json[1][2], size_in_bytes |-> json[2][2]]
    ELSE [ok |-> FALSE, fmt |-> "", size_in_bytes |-> 0]

\* what a failed write_all may leave behind: a strict prefix of the content
Partial(content) == {SubSeq(content, 1, k) : k \in 0..(Len(content) - 1)}

\* photon_rs encodes a transformed image to bytes the handlers never look at
EncodedImages == {<<b, b>> : b \in Byte}

\* decoded source images of the request handlers (the codec is opaque)
DecodedImages == {Image(4, 2), Image(200, 100)}

\* target dimensions of the resize requests of the service
RequestDims == {0, 2, 100}

---------------------------------------------------------------------------
(* Requests and responses *)

to_str(header) == IF header = OpaqueHeader THEN NoneStr ELSE Some(header)

NoResp == [status |-> 0, body |-> "none", err |-> "none",
           id |-> 0, fmt |-> "", data |-> <<>>, ct |-> ""]

\* build_err_response(code, msg): Json(ErrorResponse { error: msg }); err is
\* the class of the failure in the taxonomy of the design
build_err_response(code, err) ==
    [NoResp EXCEPT !.status = code, !.body = "json_error", !.err = err]

BAD_REQUEST == 400
INTERNAL_SERVER_ERROR == 500
CREATED == 201
OK == 200

\* A request: its inputs, the locals of its handler, and what the history
\* knows of it (known: the id had been returned to a client when the request
\* arrived; ready: the sidecar and the blob of the id were in place then;
\* overlap: another transform of the same id was in flight with it; fault:
\* the I/O or codec failure it met).
Blank == [kind |-> "idle", pc |-> "idle", img_id |-> 0,
          has_file |-> FALSE, has_ct |-> FALSE, readable |-> TRUE,
          name_empty |-> TRUE, data_empty |-> TRUE,
          ct |-> NoneStr, file_data |-> <<>>, file_id |-> 0,
          img_meta |-> [fmt |-> "", size_in_bytes |-> 0],
          known |-> FALSE, ready |-> FALSE, overlap |-> FALSE,
          fault |-> "none", resp |-> NoResp]

\* The four transform handlers begin with the same read_image; a request is
\* a "transform" until the handlers part, after read_image.
Transforms == {"transform", "watermark", "resize", "compress", "crop"}

\* a request is taken up once the previous response has gone out
Free(s) == reqs[s].pc = "idle" /\ last.pc = "idle"

Running(s, kind, pc) ==
    reqs[s].kind = kind /\ reqs[s].pc = pc /\ last.pc = "idle"

CanFail == faults < MaxFaults

\* the handler returns resp: the connection is free again
Finish(s, r, resp) ==
    /\ reqs' = [reqs EXCEPT ![s] = Blank]
    /\ last' = [r EXCEPT !.pc = "done", !.resp = resp]

\* the handler panics: the task dies and no response is written
Panic(s, r) ==
    /\ reqs' = [reqs EXCEPT ![s] = Blank]
    /\ last' = [r EXCEPT !.pc = "panicked"]

ReturnedIds == {r.id : r \in returned}

EngIdle == [op |-> "none", image |-> Image(0, 0), width |-> None,
            height |-> None, maintain_aspect |-> FALSE, result |-> Err,
            position |-> "", overflow_checks |-> FALSE,
            anchor |-> [panic |-> FALSE, x |-> 0, y |-> 0]]

Init ==
    /\ files = <<>>
    /\ metas = <<>>
    /\ uuids = 0
    /\ reqs = [s \in Slots |-> Blank]
    /\ last = Blank
    /\ returned = {}
    /\ obtained = [i \in Ids |-> 0]
    /\ faults = 0
    /\ eng = EngIdle

---------------------------------------------------------------------------
(* upload_image and write_file *)

\* The multipart loop and the validation of upload_image, for a body with at
\* most one "file" part.  A missing filename defaults to a generated name;
\* a part without Content-Type panics at content_type().unwrap().
UploadImage(s) ==
    /\ Free(s)
    /\ \E has_file \in BOOLEAN,
          name \in OptionStr({"", "a.png"}),
          ct \in OptionStr(UploadTypes),
          readable \in BOOLEAN,
          data \in Payloads :
         LET file_name == IF ~has_file THEN ""
                          ELSE IF name.some THEN name.val ELSE "images-uuid"
             image_type == IF has_file THEN ct ELSE NoneStr
             file_data == IF has_file /\ ct.some /\ readable THEN data ELSE <<>>
             \* what the history keeps of a rejected upload
             r == [Blank EXCEPT !.kind = "upload", !.has_file = has_file,
                                !.has_ct = image_type.some,
                                !.readable = has_file => readable,
                                !.name_empty = (file_name = ""),
                                !.data_empty = (has_file => data = <<>>)]
         IN  IF has_file /\ ~ct.some THEN Panic(s, r)
             ELSE IF has_file /\ ~readable
               THEN Finish(s, r, build_err_response(BAD_REQUEST, "param"))
             ELSE IF file_name = "" \/ file_data = <<>>
               THEN Finish(s, r, build_err_response(BAD_REQUEST, "param"))
             ELSE /\ reqs' = [reqs EXCEPT ![s] =
                        [r EXCEPT !.pc = "write_file", !.ct = image_type,
                                  !.file_data = file_data]]
                  /\ last' = last
    /\ UNCHANGED <<files, metas, uuids, returned, obtained, faults, eng>>

\* write_file, first half: draw the id, File::create the blob and write_all
WriteBlob(s) ==
    LET r == reqs[s]
        image_format == detect_image_format(r.ct.val)
        file_id == NewUuid(uuids)
        file_path == blob_path(file_id, image_format)
    IN  /\ Running(s, "upload", "write_file")
        /\ uuids < MaxIds
        /\ uuids' = uuids + 1
        /\ obtained' = [obtained EXCEPT ![file_id] = @ + 1]
        /\ \/ \* File::create fails
              /\ CanFail /\ faults' = faults + 1
              /\ files' = files
              /\ Finish(s, [r EXCEPT !.file_id = file_id, !.fault = "create_file"],
                        build_err_response(INTERNAL_SERVER_ERROR, "io"))
           \/ \* write_all fails part-way
              /\ CanFail /\ faults' = faults + 1
              /\ \E part \in Partial(r.file_data) :
                    files' = FsWrite(files, file_path, part)
              /\ Finish(s, [r EXCEPT !.file_id = file_id, !.fault = "write_file"],
                        build_err_response(INTERNAL_SERVER_ERROR, "io"))
           \/ /\ files' = FsWrite(files, file_path, r.file_data)
              /\ reqs' = [reqs EXCEPT ![s] = [r EXCEPT !.file_id = file_id,
                                                       !.pc = "write_meta"]]
              /\ UNCHANGED <<last, faults>>
        /\ UNCHANGED <<metas, returned, eng>>

\* write_file, second half: File::create the sidecar, write the JSON, answer
WriteMeta(s) ==
    LET r == reqs[s]
        image_format == detect_image_format(r.ct.val)
        meta == ImgMetadata(image_format, r.file_data)
        meta_json == to_vec(meta)
    IN  /\ Running(s, "upload", "write_meta")
        /\ \/ \* File::create fails
              /\ CanFail /\ faults' = faults + 1
              /\ metas' = metas
              /\ returned' = returned
              /\ Finish(s, [r EXCEPT !.fault = "create_meta"],
                        build_err_response(INTERNAL_SERVER_ERROR, "io"))
           \/ \* write_all fails part-way
              /\ CanFail /\ faults' = faults + 1
              /\ \E part \in Partial(meta_json) :
                    metas' = FsWrite(metas, r.file_id, part)
              /\ returned' = returned
              /\ Finish(s, [r EXCEPT !.fault = "write_meta"],
                        build_err_response(INTERNAL_SERVER_ERROR, "io"))
           \/ /\ metas' = FsWrite(metas, r.file_id, meta_json)
              /\ faults' = faults
              /\ returned' = returned \cup
                    {[id |-> r.file_id, origin |-> "upload", src |-> 0,
                      fmt |-> as_str(image_format), bytes |-> r.file_data]}
              /\ Finish(s, r,
                    [NoResp EXCEPT !.status = CREATED, !.body = "json_id",
                                   !.id = r.file_id,
                                   !.fmt = as_str(image_format)])
        /\ UNCHANGED <<files, uuids, obtained, eng>>

---------------------------------------------------------------------------
(* get_image *)

GetImage(s) ==
    /\ Free(s)
    /\ \E img_id \in Ids, header \in OptionStr(GetHeaders) :
         LET ct == IF header.some THEN header.val ELSE "application/octet-stream"
             ct_value == to_str(ct)
             img_fmt == detect_image_format(ct_value.val)
             full_path == get_path(img_id, img_fmt)
             r == [Blank EXCEPT !.kind = "get", !.img_id = img_id, !.ct = header,
                                !.known = img_id \in ReturnedIds]
         IN  IF ~ct_value.some THEN Panic(s, r)
             ELSE IF img_fmt = "Unknown"
               THEN Finish(s, r, [NoResp EXCEPT !.status = BAD_REQUEST,
                                                !.body = "text", !.err = "format"])
             ELSE IF full_path \in DOMAIN files
               THEN Finish(s, r, [NoResp EXCEPT !.status = OK, !.body = "bytes",
                                                !.data = files[full_path], !.ct = ct])
             ELSE Finish(s, r, build_err_response(INTERNAL_SERVER_ERROR, "not_found"))
    /\ UNCHANGED <<files, metas, uuids, returned, obtained, faults, eng>>

---------------------------------------------------------------------------
(* The transform endpoints: read_image, then the handler's own work *)

InFlightOn(img_id) ==
    {t \in Slots : reqs[t].kind \in Transforms /\ reqs[t].img_id = img_id}

\* a watermark, resize, compress or crop request for img_id arrives
Accept(s) ==
    /\ Free(s)
    /\ \E img_id \in Ids :
         LET m == IF img_id \in DOMAIN metas THEN from_slice(metas[img_id])
                  ELSE from_slice(<<>>)
             others == InFlightOn(img_id)
         IN  reqs' = [t \in Slots |->
               IF t = s
               THEN [Blank EXCEPT !.kind = "transform", !.pc = "read_meta",
                                  !.img_id = img_id,
                                  !.ready = m.ok /\ read_path(img_id, m) \in DOMAIN files,
                                  !.overlap = others # {}]
               ELSE IF t \in others THEN [reqs[t] EXCEPT !.overlap = TRUE]
               ELSE reqs[t]]
    /\ UNCHANGED <<files, metas, uuids, last, returned, obtained, faults, eng>>

\* read_image, first half: get_meta reads and parses the sidecar
ReadMeta(s) ==
    LET r == reqs[s]
        img_meta_res == IF r.img_id \in DOMAIN metas
                        THEN from_slice(metas[r.img_id])
                        ELSE from_slice(<<>>)
    IN  /\ Running(s, "transform", "read_meta")
        /\ IF ~img_meta_res.ok
           THEN Finish(s, r, build_err_response(INTERNAL_SERVER_ERROR,
                    IF r.img_id \in DOMAIN metas THEN "corrupt" ELSE "not_found"))
           ELSE /\ reqs' = [reqs EXCEPT ![s] =
                      [r EXCEPT !.pc = "read_data",
                                !.img_meta = [fmt |-> img_meta_res.fmt,
                                    size_in_bytes |-> img_meta_res.size_in_bytes]]]
                /\ last' = last
        /\ UNCHANGED <<files, metas, uuids, returned, obtained, faults, eng>>

\* read_image, second half: get_img_data reads the blob; the bytes are
\* decoded by PhotonImage::new_from_byteslice
ReadData(s) ==
    LET r == reqs[s]
        full_path == read_path(r.img_id, r.img_meta)
    IN  /\ Running(s, "transform", "read_data")
        /\ IF full_path \notin DOMAIN files
           THEN Finish(s, r, build_err_response(INTERNAL_SERVER_ERROR, "not_found"))
           ELSE /\ reqs' = [reqs EXCEPT ![s] = [r EXCEPT !.pc = "transform"]]
                /\ last' = last
        /\ UNCHANGED <<files, metas, uuids, returned, obtained, faults, eng>>

\* save_new_iamge and the handler's answer; save_image either fails or
\* leaves the encoded bytes at output_path
SaveNewImage(s, r) ==
    LET new_image_id == NewUuid(uuids) IN
    /\ uuids < MaxIds
    /\ uuids' = uuids + 1
    /\ obtained' = [obtained EXCEPT ![new_image_id] = @ + 1]
    /\ \/ /\ CanFail /\ faults' = faults + 1
          /\ files' = files
          /\ returned' = returned
          /\ Finish(s, [r EXCEPT !.fault = "save_image"],
                    build_err_response(INTERNAL_SERVER_ERROR, "codec"))
       \/ /\ faults' = faults
          /\ \E bytes \in EncodedImages :
               /\ files' = FsWrite(files, output_path(new_image_id, r.img_meta), bytes)
               /\ returned' = returned \cup
                     {[id |-> new_image_id, origin |-> "derived", src |-> r.img_id,
                       fmt |-> r.img_meta.fmt, bytes |-> bytes]}
          /\ Finish(s, r,
                [NoResp EXCEPT !.status = OK, !.body = "json_new_img_id",
                               !.id = new_image_id])
    /\ UNCHANGED metas

Positions == {"top-left", "center", "bottom-right", "middle"}

\* The anchor of add_watermark_to_image.  The subtractions are on u32: with
\* overflow checks (debug profile) a negative difference panics, without them
\* it wraps, and `as i32` turns the wrapped value into the negative difference.
add_watermark_to_image(image, position, overflow_checks) ==
    LET x == CASE position = "center" -> image.width \div 2 - 50
               [] position = "bottom-right" -> image.width - 100
               [] OTHER -> 10
        y == CASE position = "center" -> image.height \div 2 - 20
               [] position = "bottom-right" -> image.height - 40
               [] OTHER -> 10
    IN  [panic |-> overflow_checks /\ (x < 0 \/ y < 0), x |-> x, y |-> y]

\* watermark_image from add_watermark_to_image on: a panic in the helper
\* kills the request before anything is saved
WatermarkTail(s, r, photon_img, position, overflow_checks) ==
    IF add_watermark_to_image(photon_img, position, overflow_checks).panic
    THEN /\ Panic(s, r)
         /\ UNCHANGED <<files, metas, uuids, returned, obtained, faults>>
    ELSE SaveNewImage(s, r)

WatermarkImage(s) ==
    LET r == [reqs[s] EXCEPT !.kind = "watermark"] IN
    /\ Running(s, "transform", "transform")
    /\ \E photon_img \in DecodedImages, position \in Positions,
          overflow_checks \in BOOLEAN :
         WatermarkTail(s, r, photon_img, position, overflow_checks)
    /\ UNCHANGED eng

CompressImage(s) ==
    LET r == [reqs[s] EXCEPT !.kind = "compress"] IN
    /\ Running(s, "transform", "transform")
    /\ SaveNewImage(s, r)
    /\ UNCHANGED eng

CropImage(s) ==
    LET r == [reqs[s] EXCEPT !.kind = "crop"] IN
    /\ Running(s, "transform", "transform")
    /\ SaveNewImage(s, r)
    /\ UNCHANGED eng

\* resize_img from Uuid::new_v4() on: the id is drawn before resize_image is
\* called, an Err answers without saving, and save_image writes the blob
ResizeTail(s, r, photon_img, width, height, maintain_aspect, save_ok, bytes) ==
    LET new_image_id == NewUuid(uuids)
        new_img_res == resize_image(photon_img, width, height, maintain_aspect)
        output == resize_output_path(r.img_id, new_image_id, r.img_meta)
    IN  /\ uuids < MaxIds
        /\ uuids' = uuids + 1
        /\ obtained' = [obtained EXCEPT ![new_image_id] = @ + 1]
        /\ new_img_res.ok /\ ~save_ok => CanFail
        /\ faults' = IF new_img_res.ok /\ ~save_ok THEN faults + 1 ELSE faults
        /\ IF ~new_img_res.ok
           THEN /\ files' = files
                /\ returned' = returned
                /\ Finish(s, r, build_err_response(INTERNAL_SERVER_ERROR, "param"))
           ELSE IF ~save_ok
           THEN /\ files' = files
                /\ returned' = returned
                /\ Finish(s, [r EXCEPT !.fault = "save_image"],
                          build_err_response(INTERNAL_SERVER_ERROR, "codec"))
           ELSE /\ files' = FsWrite(files, output, bytes)
                /\ returned' = returned \cup
                      {[id |-> new_image_id, origin |-> "derived", src |-> r.img_id,
                        fmt |-> r.img_meta.fmt, bytes |-> bytes]}
                /\ Finish(s, r,
                      [NoResp EXCEPT !.status = OK, !.body = "json_new_img_id",
                                     !.id = new_image_id])
        /\ UNCHANGED metas

\* resize_img passes Some(req.width), Some(req.height) to resize_image
ResizeImg(s) ==
    LET r == [reqs[s] EXCEPT !.kind = "resize"] IN
    /\ Running(s, "transform", "transform")
    /\ \E photon_img \in DecodedImages, width \in RequestDims,
          height \in RequestDims, maintain_aspect \in BOOLEAN,
          save_ok \in BOOLEAN, bytes \in EncodedImages :
         ResizeTail(s, r, photon_img, Some(width), Some(height),
                    maintain_aspect, save_ok, bytes)
    /\ UNCHANGED eng

---------------------------------------------------------------------------
(* The service: requests arrive on any free connection and interleave at   *)
(* their filesystem operations.                                            *)

\* the response of the finished request goes out on its connection
Deliver ==
    /\ last.pc # "idle"
    /\ last' = Blank
    /\ UNCHANGED <<files, metas, uuids, reqs, returned, obtained, faults, eng>>

Next ==
    \/ Deliver
    \/ \E s \in Slots :
        \/ UploadImage(s)
        \/ WriteBlob(s)
        \/ WriteMeta(s)
        \/ GetImage(s)
        \/ Accept(s)
        \/ ReadMeta(s)
        \/ ReadData(s)
        \/ WatermarkImage(s)
        \/ ResizeImg(s)
        \/ CompressImage(s)
        \/ CropImage(s)

Spec == Init /\ [][Next]_vars

---------------------------------------------------------------------------
(* The transformation engine on its own: resize_image applied to every     *)
(* parameter combination its signature admits (width and height are        *)
(* Option<u32>), followed by the continuation resize_img gives its result. *)

EngineResize ==
    /\ eng.op = "none"
    /\ \E orig_width \in 1..MaxSrcW, orig_height \in 1..MaxSrcH,
          width \in Option(0..MaxTarget), height \in Option(0..MaxTarget),
          maintain_aspect \in BOOLEAN :
         LET image == Image(orig_width, orig_height)
             r == [Blank EXCEPT !.kind = "resize", !.pc = "transform",
                                !.img_meta = [fmt |-> ".png", size_in_bytes |-> 1]]
         IN  /\ ResizeTail(1, r, image, width, height, maintain_aspect, TRUE, <<0>>)
             /\ eng' = [EngIdle EXCEPT
                        !.op = "resize", !.image = image, !.width = width,
                        !.height = height, !.maintain_aspect = maintain_aspect,
                        !.result = resize_image(image, width, height,
                                                maintain_aspect)]

\* image sizes on both sides of the offsets 100 x 40 and 50 x 20 of the
\* anchors, with the small sources of the resizes
WatermarkWidths == {1, MaxSrcW, 99, 100, 101, 200}
WatermarkHeights == {1, MaxSrcH, 39, 40, 41, 100}

\* add_watermark_to_image applied to every source size and position, in
\* either build profile, followed by the continuation watermark_image
\* gives it
EngineWatermark ==
    /\ eng.op = "none"
    /\ \E width \in WatermarkWidths, height \in WatermarkHeights,
          position \in Positions, overflow_checks \in BOOLEAN :
         LET image == Image(width, height)
             r == [Blank EXCEPT !.kind = "watermark", !.pc = "transform",
                                !.img_meta = [fmt |-> ".png", size_in_bytes |-> 1]]
         IN  /\ WatermarkTail(1, r, image, position, overflow_checks)
             /\ eng' = [EngIdle EXCEPT
                        !.op = "watermark", !.image = image,
                        !.position = position,
                        !.overflow_checks = overflow_checks,
                        !.anchor = add_watermark_to_image(image, position,
                                                          overflow_checks)]

NextEngine == EngineResize \/ EngineWatermark

SpecEngine == Init /\ [][NextEngine]_vars

---------------------------------------------------------------------------
(* Claims *)

BlobsOf(id) == {p \in DOMAIN files : p[1] = id}

SidecarOf(id) ==
    IF id \in DOMAIN metas THEN from_slice(metas[id]) ELSE from_slice(<<>>)

Answered == last.pc = "done"

\* C1: every AssetId returned to a client, original or derived, has exactly
\* one byte blob and exactly one metadata sidecar, and the sidecar of a
\* derived asset carries the format of the sidecar of its source.
C1_ReturnedAssetHasBlobAndSidecar ==
    \A r \in returned :
        /\ Cardinality(BlobsOf(r.id)) = 1
        /\ SidecarOf(r.id).ok
        /\ r.origin = "derived" => SidecarOf(r.id).fmt = SidecarOf(r.src).fmt

\* an upload of a known format whose id the client held when the last
\* request arrived
UploadedKnown(id) ==
    {r \in returned : r.id = id /\ r.origin = "upload" /\ r.fmt # ""}

\* C2: a retrieve request for the id of a successfully uploaded asset of a
\* known format returns its bytes whatever Content-Type (or none) the client
\* declares, the format being resolved from the stored metadata.
C2_RetrieveIgnoresClientHeader ==
    (last.kind = "get" /\ last.pc # "idle" /\ last.known) =>
        \A r \in UploadedKnown(last.img_id) :
            /\ Answered
            /\ last.resp.status = OK
            /\ last.resp.data = r.bytes

\* the retrieve request that finished last named format fmt in its header
RetrievedAs(fmt) ==
    /\ last.kind = "get" /\ last.pc # "idle" /\ last.known
    /\ last.ct.some
    /\ to_str(last.ct.val).some
    /\ as_str(detect_image_format(last.ct.val)) = fmt

\* C3: round trip.  An upload of non-empty bytes in a supported format F that
\* succeeded with id, followed after any other requests by a retrieval of id
\* with format F, returns exactly the uploaded bytes.
C3_RoundTrip ==
    \A r \in UploadedKnown(last.img_id) :
        RetrievedAs(r.fmt) =>
            /\ Answered
            /\ last.resp.status = OK
            /\ last.resp.body = "bytes"
            /\ last.resp.data = r.bytes
            /\ r.bytes # <<>>

\* the round trip happened, with other writes between the upload and the
\* retrieval and the header spelled differently from the upload's type
C3_RoundTripWitness ==
    /\ \E r \in UploadedKnown(last.img_id) :
          RetrievedAs(r.fmt) /\ last.resp.data = r.bytes /\ last.ct.val = "image/png"
    /\ uuids >= 2
    /\ last.resp.status = OK

\* C4: stored assets are write-once.  No step of any request changes or
\* removes a blob or a sidecar that exists, and what a step adds to the blob
\* directory lies under an id that had no file before.
WriteOnceStep ==
    /\ \A p \in DOMAIN files : p \in DOMAIN files' /\ files'[p] = files[p]
    /\ \A i \in DOMAIN metas : i \in DOMAIN metas' /\ metas'[i] = metas[i]
    /\ \A p \in DOMAIN files' \ DOMAIN files :
          BlobsOf(p[1]) = {} /\ p[1] \notin DOMAIN metas

C4_WriteOnce == [][WriteOnceStep]_vars

\* a watermark of an uploaded asset succeeded and the source is as uploaded
C4_WriteOnceWitness ==
    /\ last.kind = "watermark" /\ Answered /\ last.resp.status = OK
    /\ \E r \in returned :
          /\ r.id = last.img_id /\ r.origin = "upload"
          /\ files[<<r.id, r.fmt>>] = r.bytes
          /\ SidecarOf(r.id).ok
          /\ BlobsOf(last.resp.id) # {}

\* C5: AssetIds are never shared or reused.  No two write operations draw
\* the same id, no two answers carry the same id, a derived id differs from
\* its source, and a transform whose source was in place when it arrived and
\* that met no I/O or codec failure answers with success, whatever else is
\* in flight.
C5_IdsNeverShared ==
    /\ \A i \in Ids : obtained[i] <= 1
    /\ \A r1, r2 \in returned : r1.id = r2.id => r1 = r2
    /\ \A r \in returned : r.origin = "derived" => r.id # r.src
    /\ (last.kind \in Transforms /\ Answered /\ last.ready /\ last.fault = "none")
          => /\ last.resp.status = OK
             /\ last.resp.id # last.img_id
             /\ obtained[last.resp.id] = 1

\* two transforms of one source were in flight together and both succeeded
C5_ConcurrentTransformsWitness ==
    /\ last.kind \in Transforms /\ Answered /\ last.overlap
    /\ last.resp.status = OK
    /\ \E r1, r2 \in returned :
          /\ r1.origin = "derived" /\ r2.origin = "derived"
          /\ r1.src = last.img_id /\ r2.src = last.img_id
          /\ r1.id # r2.id
          /\ r2.id = last.resp.id

C7_RejectedUploadIsClientError ==
    (last.kind = "upload" /\ last.pc # "idle"
       /\ (~last.has_file \/ last.data_empty \/ ~last.readable)) =>
        /\ Answered
        /\ last.resp.status = BAD_REQUEST
        /\ last.file_id = 0

\* C8: resize with neither target width nor target height fails with a
\* parameter error and performs no writes: no file under any new id, the
\* store unchanged.
C8_ResizeWithoutDimsFails ==
    (eng.op = "resize" /\ ~eng.width.some /\ ~eng.height.some) =>
        /\ ~eng.result.ok
        /\ Answered
        /\ last.resp.body = "json_error"
        /\ last.resp.err = "param"
        /\ DOMAIN files = {}
        /\ DOMAIN metas = {}
        /\ returned = {}

C8_ResizeWithoutDimsWitness ==
    /\ eng.op = "resize" /\ ~eng.width.some /\ ~eng.height.some
    /\ Answered /\ last.resp.status >= 400

\* C9: every failed request is rendered as the uniform {error: string}
\* body, with a client-error status exactly when the failure is a
\* parameter or format failure and a server-error status otherwise.
C9_UniformErrorRendering ==
    (Answered /\ last.resp.status >= 400) =>
        /\ last.resp.body = "json_error"
        /\ last.resp.status \in {BAD_REQUEST, INTERNAL_SERVER_ERROR}
        /\ last.resp.status = BAD_REQUEST <=> last.resp.err \in {"param", "format"}

\* round(a / b), half away from zero, in exact arithmetic
RoundDiv(a, b) == (2 * a + b) \div (2 * b)

\* the reference rule of Resize
ReferenceSize(image, width, height, maintain_aspect) ==
    LET ow == image.width
        oh == image.height
    IN  IF width.some /\ height.some /\ ~maintain_aspect
        THEN Image(width.val, height.val)
        ELSE IF width.some /\ ~height.some
        THEN Image(width.val, RoundDiv(oh * width.val, ow))
        ELSE IF height.some /\ ~width.some
        THEN Image(RoundDiv(ow * height.val, oh), height.val)
        ELSE \* scale = min(width/ow, height/oh)
             IF width.val * oh <= height.val * ow
             THEN Image(RoundDiv(ow * width.val, ow), RoundDiv(oh * width.val, ow))
             ELSE Image(RoundDiv(ow * height.val, oh), RoundDiv(oh * height.val, oh))

\* C10: for every source size and every parameter combination with at least
\* one target dimension, the output dimensions of Resize equal the reference
\* rule.
C10_ResizeMatchesReference ==
    (eng.op = "resize" /\ (eng.width.some \/ eng.height.some)) =>
        /\ eng.result.ok
        /\ eng.result.img = ReferenceSize(eng.image, eng.width, eng.height,
                                          eng.maintain_aspect)

\* C11: for every image size and every position, the watermark anchor is
\* (10, 10) for "top-left" and for any unrecognized position,
\* (width/2 - 50, height/2 - 20) for "center" and (width - 100, height - 40)
\* for "bottom-right", and the operation is not fatal for any image size,
\* also when the anchor falls outside the image.
C11_WatermarkAnchorNonFatal ==
    eng.op = "watermark" =>
        LET w == eng.image.width
            h == eng.image.height
            expected ==
                IF eng.position = "center" THEN <<w \div 2 - 50, h \div 2 - 20>>
                ELSE IF eng.position = "bottom-right" THEN <<w - 100, h - 40>>
                ELSE <<10, 10>>
        IN  /\ last.pc # "panicked"
            /\ <<eng.anchor.x, eng.anchor.y>> = expected

\* the blob write_file stored for the upload the last response answers
UploadBlob ==
    <<last.file_id, as_str(detect_image_format(last.ct.val))>>

\* C13: upload writes the blob before the sidecar and rolls nothing back.
\* A failed blob write answers a server error and writes no metadata; a
\* failed metadata write after a stored blob answers a server error, returns
\* no id and leaves the blob as an orphan; an id is returned only when both
\* writes succeeded; and in every state every id that has a metadata record
\* has a byte blob.
C13_BlobBeforeSidecarNoRollback ==
    /\ \A i \in DOMAIN metas : BlobsOf(i) # {}
    /\ (last.kind = "upload" /\ Answered) =>
          /\ last.fault \in {"create_file", "write_file"} =>
                /\ last.resp.status = INTERNAL_SERVER_ERROR
                /\ last.resp.id = 0
                /\ last.file_id \notin DOMAIN metas
          /\ last.fault \in {"create_meta", "write_meta"} =>
                /\ last.resp.status = INTERNAL_SERVER_ERROR
                /\ last.resp.id = 0
                /\ last.file_id \notin ReturnedIds
                /\ ~SidecarOf(last.file_id).ok
                /\ BlobsOf(last.file_id) = {UploadBlob}
                /\ files[UploadBlob] = last.file_data
          /\ last.resp.id # 0 =>
                /\ last.fault = "none"
                /\ last.resp.status = CREATED
                /\ last.resp.id = last.file_id
                /\ BlobsOf(last.file_id) = {UploadBlob}
                /\ files[UploadBlob] = last.file_data
                /\ SidecarOf(last.file_id).ok

\* the metadata file of an upload could not be created after its blob was
\* stored: the blob is an orphan
C13_OrphanBlobWitness ==
    /\ last.kind = "upload" /\ Answered
    /\ last.fault = "create_meta"
    /\ last.resp.status = INTERNAL_SERVER_ERROR
    /\ last.file_id \notin DOMAIN metas
    /\ UploadBlob \in DOMAIN files
    /\ files[UploadBlob] = last.file_data
    /\ last.file_data # <<>>

====
